---------------------------- MODULE Spec2Model ----------------------------
(***************************************************************************)
(* Model of the OCI DocGen frontend (src/frontend/js/app.js, lines 1-1235): *)
(* the cascading scope selection, the searchable option lists, the         *)
(* collection task with its ticker and poller, and the export gate.        *)
(*                                                                         *)
(* The page is single-threaded and event-driven.  One action of the model  *)
(* is one run of a handler up to its next await: a click handler, a timer  *)
(* callback, or the continuation that runs when a network response         *)
(* arrives.  Requests in flight are state.  A handler can run whenever the *)
(* script itself lets it run (fetchBtn.disabled, the 'disabled' class of a *)
(* select, a container carrying the 'hidden' class); the loading overlay   *)
(* is recorded but is not a guard, because the script never consults it.   *)
(***************************************************************************)
EXTENDS Naturals, Integers, Sequences, FiniteSets, TLC

\* ------------------------------------------------------------------ bounds
MaxInFlight == 2     \* scope-load requests (regions/compartments/instances) in flight
MaxTasks    == 2     \* submissions (clicks on the fetch button) per behaviour
MaxPolls    == 2     \* collection-status requests in flight per task
MaxResets   == 1     \* session resets per behaviour
MaxTimeouts == 1     \* pending hideProgress timeouts
MaxExports  == 1     \* generate-document requests in flight
MaxNodes    == 4     \* option nodes of a filtered list
MaxDepth    == 2     \* deepest level of an option node
MaxQueryLen == 2     \* characters of a search query
MaxFiles    == 1     \* files in one attachment list
MaxNameLen  == 2     \* characters typed into the responsible-name input
MaxEntries  == 1     \* entries of the cpes / drgs collection of a snapshot
MaxIpsec    == 1     \* IPSec connections of a snapshot

\* ------------------------------------------------------------ the universe
Null == "null"

Regions == {"r1", "r2"}

\* GET /api/{region}/compartments (external collaborator)
CompartmentsOf(r) ==
  CASE r = "r1" -> {"c1", "c2"}
    [] r = "r2" -> {"c3"}
    [] OTHER    -> {}

\* GET /api/{region}/instances/{compartment} (external collaborator)
InstancesOf(c) ==
  CASE c = "c1" -> {"i1", "i2"}
    [] c = "c2" -> {"i3"}
    [] c = "c3" -> {"i4"}
    [] OTHER    -> {}

Compartments == UNION {CompartmentsOf(r) : r \in Regions}
Instances    == UNION {InstancesOf(c) : c \in Compartments}

\* option.name || option.display_name of a compartment option
NameOf(c) == "name-" \o c

DocTypes == {"new_host", "full_infra", "kubernetes"}

\* data.result of a SUCCESS status: which top-level collections are populated.
\* NullResult is a SUCCESS answer that carries no result object.
\* cpes, drgs: a collection is a list of entries, or the key is absent from the result;
\* ipsec_connections: the list of [cpe_id, drg_id] of the connections.
Collection(items) == [present |-> TRUE, items |-> items]
AbsentCollection == [present |-> FALSE, items |-> <<>>]
NullResult == [isNull |-> TRUE,  instances |-> FALSE, clusters |-> FALSE, vcns |-> FALSE,
               cpes |-> AbsentCollection, drgs |-> AbsentCollection,
               ipsec_connections |-> <<>>]
Snapshot(i, k, v) == [isNull |-> FALSE, instances |-> i, clusters |-> k, vcns |-> v,
                      cpes |-> Collection(<<>>), drgs |-> Collection(<<>>),
                      ipsec_connections |-> <<>>]
EmptyData == Snapshot(FALSE, FALSE, FALSE)
Results == {NullResult, EmptyData, Snapshot(TRUE, FALSE, FALSE), Snapshot(FALSE, FALSE, TRUE)}

\* the result of a PROGRESS status: {current, total}, or <<>> when it is not an object
NoInfo == <<>>
ProgressInfos == {NoInfo, <<0, 0>>, <<1, 4>>, <<2, 4>>, <<3, 4>>, <<4, 4>>}

\* ------------------------------------------------------------------- state
VARIABLES
  selectedRegion,          \* app.js:57
  selectedDocType,         \* app.js:58
  selectedCompartmentId,   \* app.js:59
  selectedCompartmentName, \* app.js:60
  selectedInstances,       \* app.js:61 (the keys of the object)
  allInfrastructureData,   \* app.js:62
  architectureImageFiles,  \* app.js:63
  antivirusImageFiles,     \* app.js:64
  summaryContainer,        \* summaryContainer.innerHTML: the rendered summary
  progressTimerInterval,   \* app.js:66: handle of the ticker last created
  pollingIntervalId,       \* app.js:67: handle of the poller last created
  fetchBtnDisabled,        \* fetchBtn.disabled
  regionSelect,            \* region options rendered?
  compartmentSelect,       \* options rendered in compartmentContainer
  instanceSelect,          \* options and checkboxes rendered in instanceContainer
  instanceStepHidden,      \* instanceStep carries 'hidden'
  detailsHidden,           \* detailsContainer carries 'hidden'
  mainAppHidden,           \* mainAppContainer carries 'hidden' (success screen shown)
  loadingOverlayHidden,    \* loadingOverlay carries 'hidden'
  progressBarWidth,        \* progressBar.style.width, as a fraction <<num, den>> of percent
  requests,                \* scope-load requests in flight: request -> count
  submits,                 \* start-collection request of each task; once accepted, the
                           \* payload is the task the server runs
  tickers,                 \* tasks whose ticker interval is active
  pollers,                 \* tasks whose poller interval is active
  polls,                   \* collection-status requests in flight, per task
  hideTimeouts,            \* pending setTimeout(hideProgress, 1200)
  exports,                 \* generate-document requests in flight
  nextTask,                \* number of submissions so far + 1
  resets,                  \* number of resets so far
  last,                    \* history: the handler that ran last, what it found, the toast it raised
  nodes,                   \* filter: the rendered option list <<level, text>>
  display,                 \* filter: item.style.display per node ("" or "none")
  searchValue              \* filter: searchBox.value

scopeVars  == <<selectedRegion, selectedDocType, selectedCompartmentId,
                selectedCompartmentName, selectedInstances>>
selectVars == <<regionSelect, compartmentSelect, instanceSelect, instanceStepHidden>>
taskVars   == <<progressTimerInterval, pollingIntervalId, submits, tickers, pollers,
                polls, hideTimeouts, nextTask, progressBarWidth>>
filterVars == <<nodes, display, searchValue>>
fileVars   == <<architectureImageFiles, antivirusImageFiles>>
summaryVars == <<summaryContainer>>
vars == <<selectedRegion, selectedDocType, selectedCompartmentId,
          selectedCompartmentName, selectedInstances, allInfrastructureData,
          progressTimerInterval, pollingIntervalId, fetchBtnDisabled,
          regionSelect, compartmentSelect, instanceSelect, instanceStepHidden,
          detailsHidden, mainAppHidden, loadingOverlayHidden, progressBarWidth,
          requests, submits, tickers, pollers, polls, hideTimeouts, exports,
          nextTask, resets, last, nodes, display, searchValue,
          architectureImageFiles, antivirusImageFiles, summaryContainer>>

Tasks == 1..MaxTasks

\* setInterval handles are named after the task whose submission created them
NoHandle == 0

\* ------------------------------------------------------- requests in flight
RegionsReq         == [kind |-> "regions", region |-> Null, compartment |-> Null]
CompartmentsReq(r) == [kind |-> "compartments", region |-> r, compartment |-> Null]
InstancesReq(r, c) == [kind |-> "instances", region |-> r, compartment |-> c]

ReqSpace == {RegionsReq} \cup {CompartmentsReq(r) : r \in Regions}
            \cup {InstancesReq(r, c) : r \in Regions, c \in Compartments}

RECURSIVE SumOver(_, _)
SumOver(f, S) == IF S = {} THEN 0
                 ELSE LET x == CHOOSE y \in S : TRUE IN f[x] + SumOver(f, S \ {x})

InFlight == SumOver(requests, ReqSpace)

Send(bag, rq)    == [bag EXCEPT ![rq] = @ + 1]
Receive(bag, rq) == [bag EXCEPT ![rq] = @ - 1]

\* the instances the server lists for a compartment of a region
InstancesIn(r, c) == IF c \in CompartmentsOf(r) THEN InstancesOf(c) ELSE {}

\* ------------------------------------------------------------ option lists
\* createCustomSelect(container, [], ..., () => {}, false, ...)
EmptyCompartmentSelect == [enabled |-> FALSE, region |-> Null]
EmptyInstanceSelect ==
  [enabled |-> FALSE, region |-> Null, compartment |-> Null, checked |-> {}]

CompartmentOptions == IF compartmentSelect.enabled
                      THEN CompartmentsOf(compartmentSelect.region) ELSE {}
InstanceOptions == IF instanceSelect.enabled
                   THEN InstancesIn(instanceSelect.region, instanceSelect.compartment)
                   ELSE {}

\* ----------------------------------------------------------------- history
\* hadComp, hadInst: a compartment / an instance was selected when a scope handler started;
\* hadHidden: an item was hidden when a search input started;
\* hadFiles: both attachment lists held a file when a reset started;
\* name: the value of responsibleNameInput a generateDocument call read;
\* info: the result a PROGRESS status carried;
\* conn[t]: how many connection-error toasts the polls of task t have raised so far,
\* counted up to MaxToasts
MaxToasts == 2
NoToasts == [t \in 1..MaxTasks |-> 0]
Ran(op, toast) == [op |-> op, hadComp |-> FALSE, hadInst |-> FALSE, hadHidden |-> FALSE,
                   hadFiles |-> FALSE, name |-> <<>>, toast |-> toast,
                   conn |-> last.conn, info |-> <<>>]
RanOn(op) == [op |-> op, hadComp |-> selectedCompartmentId # Null,
              hadInst |-> selectedInstances # {}, hadHidden |-> FALSE,
              hadFiles |-> (architectureImageFiles # <<>> /\ antivirusImageFiles # <<>>),
              name |-> <<>>, toast |-> "none", conn |-> last.conn, info |-> <<>>]
NotRun(op) == [op |-> op, hadComp |-> FALSE, hadInst |-> FALSE, hadHidden |-> FALSE,
               hadFiles |-> FALSE, name |-> <<>>, toast |-> "none", conn |-> NoToasts,
               info |-> <<>>]

\* ------------------------------------------------------------- UI functions
\* updateFetchButtonState, on the values the running handler has assigned
UpdateFetchButtonState ==
  fetchBtnDisabled' = IF selectedDocType' = "new_host"
                      THEN selectedInstances' = {}
                      ELSE selectedCompartmentId' = Null

\* updateUiForDocType
UpdateUiForDocType ==
  /\ instanceStepHidden' = (selectedDocType' # "new_host")
  /\ UpdateFetchButtonState

\* hideProgress: clearInterval on the two stored handles, hide the overlay
HideProgress ==
  /\ tickers' = tickers \ {progressTimerInterval}
  /\ pollers' = pollers \ {pollingIntervalId}
  /\ loadingOverlayHidden' = TRUE

\* ------------------------------------------------------- scope loading
\* fetchCompartments up to its await (lines 458-463)
FetchCompartments ==
  IF selectedRegion' = Null
  THEN UNCHANGED <<compartmentSelect, requests, loadingOverlayHidden>>
  ELSE /\ loadingOverlayHidden' = FALSE
       /\ compartmentSelect' = EmptyCompartmentSelect
       /\ requests' = Send(requests, CompartmentsReq(selectedRegion'))

\* fetchInstances up to its await (lines 491-496)
FetchInstances ==
  IF selectedRegion' = Null \/ selectedCompartmentId' = Null
  THEN UNCHANGED <<instanceSelect, requests, loadingOverlayHidden>>
  ELSE /\ loadingOverlayHidden' = FALSE
       /\ instanceSelect' = EmptyInstanceSelect
       /\ requests' = Send(requests, InstancesReq(selectedRegion', selectedCompartmentId'))

\* resetAndFetchCompartments that forgets to empty selectedInstances
ResetAndFetchCompartments_KeepInstances ==
  /\ selectedCompartmentId' = Null
  /\ UNCHANGED selectedInstances
  /\ UNCHANGED selectedCompartmentName
  /\ UpdateFetchButtonState
  /\ detailsHidden' = TRUE
  /\ instanceSelect' = EmptyInstanceSelect
  /\ FetchCompartments

\* resetAndFetchCompartments
ResetAndFetchCompartments ==
  /\ selectedCompartmentId' = Null
  /\ selectedInstances' = {}
  /\ UNCHANGED selectedCompartmentName
  /\ UpdateFetchButtonState
  /\ detailsHidden' = TRUE
  /\ instanceSelect' = EmptyInstanceSelect
  /\ FetchCompartments

\* resetAndFetchInstances that empties selectedInstances only when it reloads the list
ResetAndFetchInstances_NewHostOnly ==
  /\ selectedInstances' = IF selectedDocType' = "new_host" THEN {} ELSE selectedInstances
  /\ UpdateFetchButtonState
  /\ detailsHidden' = TRUE
  /\ IF selectedDocType' = "new_host"
     THEN FetchInstances
     ELSE UNCHANGED <<instanceSelect, requests, loadingOverlayHidden>>

\* resetAndFetchInstances
ResetAndFetchInstances ==
  /\ selectedInstances' = {}
  /\ UpdateFetchButtonState
  /\ detailsHidden' = TRUE
  /\ IF selectedDocType' = "new_host"
     THEN FetchInstances
     ELSE UNCHANGED <<instanceSelect, requests, loadingOverlayHidden>>

\* click on an option of the region select (callback at lines 415-420)
SelectRegion(v) ==
  /\ ~mainAppHidden /\ regionSelect
  /\ InFlight < MaxInFlight
  /\ last' = RanOn("SelectRegion")
  /\ UNCHANGED selectedDocType
  /\ IF selectedRegion # v
     THEN /\ selectedRegion' = v
          /\ ResetAndFetchCompartments
     ELSE UNCHANGED <<selectedRegion, selectedCompartmentId, selectedCompartmentName,
                      selectedInstances, fetchBtnDisabled, detailsHidden,
                      instanceSelect, compartmentSelect, requests, loadingOverlayHidden>>
  /\ UNCHANGED <<allInfrastructureData, regionSelect, instanceStepHidden, mainAppHidden,
                 exports, resets, taskVars, filterVars, fileVars, summaryVars>>

\* click on an option of the document type select (callback at lines 448-451)
SelectDocType_ClearsInstances(v) ==
  /\ ~mainAppHidden
  /\ last' = RanOn("SelectDocType")
  /\ selectedDocType' = v
  /\ selectedInstances' = {}
  /\ UNCHANGED <<selectedRegion, selectedCompartmentId, selectedCompartmentName>>
  /\ UpdateUiForDocType
  /\ UNCHANGED <<allInfrastructureData, regionSelect, compartmentSelect, instanceSelect,
                 detailsHidden, mainAppHidden, loadingOverlayHidden, requests, exports,
                 resets, taskVars, filterVars, fileVars, summaryVars>>

SelectDocType(v) ==
  /\ ~mainAppHidden
  /\ last' = RanOn("SelectDocType")
  /\ selectedDocType' = v
  /\ UNCHANGED <<selectedRegion, selectedCompartmentId, selectedCompartmentName,
                 selectedInstances>>
  /\ UpdateUiForDocType
  /\ UNCHANGED <<allInfrastructureData, regionSelect, compartmentSelect, instanceSelect,
                 detailsHidden, mainAppHidden, loadingOverlayHidden, requests, exports,
                 resets, taskVars, filterVars, fileVars, summaryVars>>

\* click on an option of the compartment select (callback at lines 472-477)
SelectCompartment(v) ==
  /\ ~mainAppHidden
  /\ v \in CompartmentOptions
  /\ InFlight < MaxInFlight
  /\ last' = RanOn("SelectCompartment")
  /\ selectedCompartmentId' = v
  /\ selectedCompartmentName' = NameOf(v)
  /\ UNCHANGED <<selectedRegion, selectedDocType>>
  /\ ResetAndFetchInstances
  /\ UNCHANGED <<allInfrastructureData, regionSelect, compartmentSelect,
                 instanceStepHidden, mainAppHidden, exports, resets, taskVars, filterVars, fileVars, summaryVars>>

\* click on an item of the instance list (lines 328-334, callback at 505-513)
ToggleInstance_ReplaceOnCheck(v) ==
  /\ ~mainAppHidden /\ ~instanceStepHidden
  /\ v \in InstanceOptions
  /\ last' = RanOn("ToggleInstance")
  /\ LET isChecked == v \notin instanceSelect.checked IN
       /\ instanceSelect' = [instanceSelect EXCEPT !.checked =
                               IF isChecked THEN @ \cup {v} ELSE @ \ {v}]
       /\ selectedInstances' = IF isChecked THEN {v}
                               ELSE selectedInstances \ {v}
  /\ UNCHANGED <<selectedRegion, selectedDocType, selectedCompartmentId,
                 selectedCompartmentName>>
  /\ UpdateFetchButtonState
  /\ UNCHANGED <<allInfrastructureData, regionSelect, compartmentSelect,
                 instanceStepHidden, detailsHidden, mainAppHidden, loadingOverlayHidden,
                 requests, exports, resets, taskVars, filterVars, fileVars, summaryVars>>

ToggleInstance(v) ==
  /\ ~mainAppHidden /\ ~instanceStepHidden
  /\ v \in InstanceOptions
  /\ last' = RanOn("ToggleInstance")
  /\ LET isChecked == v \notin instanceSelect.checked IN
       /\ instanceSelect' = [instanceSelect EXCEPT !.checked =
                               IF isChecked THEN @ \cup {v} ELSE @ \ {v}]
       /\ selectedInstances' = IF isChecked THEN selectedInstances \cup {v}
                               ELSE selectedInstances \ {v}
  /\ UNCHANGED <<selectedRegion, selectedDocType, selectedCompartmentId,
                 selectedCompartmentName>>
  /\ UpdateFetchButtonState
  /\ UNCHANGED <<allInfrastructureData, regionSelect, compartmentSelect,
                 instanceStepHidden, detailsHidden, mainAppHidden, loadingOverlayHidden,
                 requests, exports, resets, taskVars, filterVars, fileVars, summaryVars>>

\* the continuation of fetchRegions (lines 407-427)
RegionsResponse(ok) ==
  /\ requests[RegionsReq] > 0
  /\ requests' = Receive(requests, RegionsReq)
  /\ regionSelect' = (ok \/ regionSelect)
  /\ last' = Ran("RegionsResponse", IF ok THEN "none" ELSE "regions")
  /\ loadingOverlayHidden' = TRUE
  /\ UNCHANGED <<scopeVars, allInfrastructureData, fetchBtnDisabled, compartmentSelect,
                 instanceSelect, instanceStepHidden, detailsHidden, mainAppHidden,
                 exports, resets, taskVars, filterVars, fileVars, summaryVars>>

\* the continuation of fetchCompartments (lines 464-485)
CompartmentsResponse(r, ok) ==
  /\ requests[CompartmentsReq(r)] > 0
  /\ requests' = Receive(requests, CompartmentsReq(r))
  /\ compartmentSelect' = IF ok THEN [enabled |-> TRUE, region |-> r]
                          ELSE compartmentSelect
  /\ last' = Ran("CompartmentsResponse", IF ok THEN "none" ELSE "load")
  /\ loadingOverlayHidden' = TRUE
  /\ UNCHANGED <<scopeVars, allInfrastructureData, fetchBtnDisabled, regionSelect,
                 instanceSelect, instanceStepHidden, detailsHidden, mainAppHidden,
                 exports, resets, taskVars, filterVars, fileVars, summaryVars>>

\* the continuation of fetchInstances (lines 497-522)
InstancesResponse(r, c, ok) ==
  /\ requests[InstancesReq(r, c)] > 0
  /\ requests' = Receive(requests, InstancesReq(r, c))
  /\ instanceSelect' =
       IF ok THEN [enabled |-> TRUE, region |-> r, compartment |-> c,
                   checked |-> InstancesIn(r, c) \cap selectedInstances]
       ELSE instanceSelect
  /\ last' = Ran("InstancesResponse", IF ok THEN "none" ELSE "load")
  /\ loadingOverlayHidden' = TRUE
  /\ UNCHANGED <<scopeVars, allInfrastructureData, fetchBtnDisabled, regionSelect,
                 compartmentSelect, instanceStepHidden, detailsHidden, mainAppHidden,
                 exports, resets, taskVars, filterVars, fileVars, summaryVars>>


\* ------------------------------------------------------- collection task
RECURSIVE GCD(_, _)
GCD(a, b) == IF b = 0 THEN a ELSE GCD(b, a % b)

\* a percentage as the fraction num/den in lowest terms
Fraction(num, den) == LET g == GCD(num, den) IN <<num \div g, den \div g>>

Percentage_ZeroPlaceholder(current, total) ==
  IF total > 0 THEN Fraction(current * 100, total) ELSE <<0, 1>>

\* the percentage of a PROGRESS status (line 641)
Percentage(current, total) ==
  IF total > 0 THEN Fraction(current * 100, total) ELSE <<5, 1>>

\* progressBar.style.width !== '100%'
WidthIs100 == progressBarWidth = <<100, 1>>

NoSubmit == [state |-> "none", payload |-> Null]

Payload_AlwaysDetails ==
  [type |-> IF selectedDocType = "new_host" THEN "new_host" ELSE "full_infra",
   doc_type |-> selectedDocType, region |-> selectedRegion,
   instance_ids |-> selectedInstances, compartment_id |-> selectedCompartmentId,
   compartment_name |-> selectedCompartmentName]

\* the request body built by fetchAllDetails (lines 571-587)
Payload ==
  IF selectedDocType = "new_host"
  THEN [type |-> "new_host", doc_type |-> selectedDocType, region |-> selectedRegion,
        instance_ids |-> selectedInstances, compartment_id |-> selectedCompartmentId,
        compartment_name |-> selectedCompartmentName]
  ELSE [type |-> "full_infra", doc_type |-> selectedDocType, region |-> selectedRegion,
        instance_ids |-> {}, compartment_id |-> selectedCompartmentId,
        compartment_name |-> Null]

\* generateInfrastructureSummary throws when it destructures a missing result (line 691)
\* summaryContainer.innerHTML before any summary is rendered, and after a reset
EmptySummary == [rendered |-> FALSE, ipsec |-> <<>>]

NotFound == "Nao encontrado"
TypeError == "TypeError"

\* Array.prototype.find(e => e.id === id): the index of the first entry with the id,
\* 0 for undefined
RECURSIVE FindFrom(_, _, _)
FindFrom(items, id, k) ==
  IF k > Len(items) THEN 0
  ELSE IF items[k].id = id THEN k ELSE FindFrom(items, id, k + 1)

Find(items, id) == FindFrom(items, id, 1)

DisplayName_NoOptionalChain(coll, id) ==
  IF ~coll.present THEN TypeError
  ELSE LET k == Find(coll.items, id) IN
       IF k = 0 THEN TypeError
       ELSE IF coll.items[k].display_name = "" THEN NotFound
       ELSE coll.items[k].display_name

\* coll.find(e => e.id === id)?.display_name || 'Não encontrado' (lines 840-841);
\* calling find on an absent collection raises
DisplayName(coll, id) ==
  IF ~coll.present THEN TypeError
  ELSE LET k == Find(coll.items, id) IN
       IF k = 0 \/ coll.items[k].display_name = "" THEN NotFound
       ELSE coll.items[k].display_name

\* the CPE and DRG names ipsecHtml shows for each connection (lines 838-841)
IpsecHtml(data) ==
  [n \in 1..Len(data.ipsec_connections) |->
     [cpeName |-> DisplayName(data.cpes, data.ipsec_connections[n].cpe_id),
      drgName |-> DisplayName(data.drgs, data.ipsec_connections[n].drg_id)]]

\* generateInfrastructureSummary raises: destructuring null (lines 691-700), or find on
\* an absent collection
SummaryThrows(data) ==
  \/ data.isNull
  \/ \E n \in 1..Len(data.ipsec_connections) :
       TypeError \in {IpsecHtml(data)[n].cpeName, IpsecHtml(data)[n].drgName}

GenerateInfrastructureSummary(data) == [rendered |-> TRUE, ipsec |-> IpsecHtml(data)]

\* click on the fetch button: fetchAllDetails up to its await (lines 567-597)
FetchAllDetails ==
  /\ ~mainAppHidden /\ ~fetchBtnDisabled
  /\ nextTask <= MaxTasks
  /\ pollers' = pollers \ {pollingIntervalId}
  /\ detailsHidden' = TRUE
  /\ loadingOverlayHidden' = FALSE
  /\ progressBarWidth' = <<0, 1>>
  /\ progressTimerInterval' = nextTask
  /\ tickers' = tickers \cup {nextTask}
  /\ submits' = [submits EXCEPT ![nextTask] = [state |-> "inflight", payload |-> Payload]]
  /\ nextTask' = nextTask + 1
  /\ last' = Ran("FetchAllDetails", "none")
  /\ UNCHANGED <<scopeVars, allInfrastructureData, fetchBtnDisabled, selectVars,
                 mainAppHidden, requests, exports, resets, pollingIntervalId, polls,
                 hideTimeouts, filterVars, fileVars, summaryVars>>

\* checkTaskStatus(task_id): start the poller (lines 625-626)
CheckTaskStatus(t) ==
  /\ pollingIntervalId' = t
  /\ pollers' = pollers \cup {t}

\* the start-collection request is answered with a task id (lines 610-613)
SubmitAccepted(t) ==
  /\ submits[t].state = "inflight"
  /\ submits' = [submits EXCEPT ![t].state = "accepted"]
  /\ CheckTaskStatus(t)
  /\ last' = Ran("SubmitAccepted", "none")
  /\ UNCHANGED <<scopeVars, allInfrastructureData, fetchBtnDisabled, selectVars,
                 detailsHidden, mainAppHidden, loadingOverlayHidden, requests, exports,
                 resets, progressTimerInterval, tickers, polls, hideTimeouts, nextTask,
                 progressBarWidth, filterVars, fileVars, summaryVars>>

\* the start-collection request is rejected or fails (lines 605-608, 615-618)
SubmitFailed(t) ==
  /\ submits[t].state = "inflight"
  /\ submits' = [submits EXCEPT ![t] = [state |-> "rejected", payload |-> Null]]
  /\ HideProgress
  /\ last' = Ran("SubmitFailed", "submit")
  /\ UNCHANGED <<scopeVars, allInfrastructureData, fetchBtnDisabled, selectVars,
                 detailsHidden, mainAppHidden, requests, exports, resets,
                 progressTimerInterval, pollingIntervalId, polls, hideTimeouts, nextTask,
                 progressBarWidth, filterVars, fileVars, summaryVars>>

\* the poller's callback fires and sends a collection-status request (lines 626-628)
PollTick(t) ==
  /\ t \in pollers
  /\ polls[t] < MaxPolls
  /\ polls' = [polls EXCEPT ![t] = @ + 1]
  /\ last' = Ran("PollTick", "none")
  /\ UNCHANGED <<scopeVars, allInfrastructureData, fetchBtnDisabled, selectVars,
                 detailsHidden, mainAppHidden, loadingOverlayHidden, requests, exports,
                 resets, progressTimerInterval, pollingIntervalId, submits, tickers,
                 pollers, hideTimeouts, nextTask, progressBarWidth, filterVars, fileVars, summaryVars>>

\* frame of a poll continuation that touches only the timers and the overlay
PollFrame ==
  UNCHANGED <<scopeVars, fetchBtnDisabled, selectVars, mainAppHidden, requests, exports,
              resets, progressTimerInterval, pollingIntervalId, submits, nextTask,
              filterVars, fileVars>>

\* the status request is answered with a non-OK HTTP status (lines 629-634)
PollNotOk(t) ==
  /\ polls[t] > 0
  /\ polls' = [polls EXCEPT ![t] = @ - 1]
  /\ HideProgress
  /\ last' = Ran("PollNotOk", "status")
  /\ PollFrame
  /\ UNCHANGED summaryContainer
  /\ UNCHANGED <<allInfrastructureData, detailsHidden, hideTimeouts, progressBarWidth>>

\* status PENDING, or any status the callback has no branch for (lines 638-667)
PollPending(t) ==
  /\ polls[t] > 0
  /\ polls' = [polls EXCEPT ![t] = @ - 1]
  /\ last' = Ran("PollPending", "none")
  /\ PollFrame
  /\ UNCHANGED summaryContainer
  /\ UNCHANGED <<allInfrastructureData, detailsHidden, hideTimeouts, progressBarWidth,
                 tickers, pollers, loadingOverlayHidden>>

\* status PROGRESS (lines 638-643)
PollProgress(t, info) ==
  /\ polls[t] > 0
  /\ polls' = [polls EXCEPT ![t] = @ - 1]
  /\ progressBarWidth' = IF info = NoInfo THEN progressBarWidth
                         ELSE Percentage(info[1], info[2])
  /\ last' = [Ran("PollProgress", "none") EXCEPT !.info = info]
  /\ PollFrame
  /\ UNCHANGED summaryContainer
  /\ UNCHANGED <<allInfrastructureData, detailsHidden, hideTimeouts, tickers, pollers,
                 loadingOverlayHidden>>

\* status SUCCESS (lines 644-662; lines 668-676 when the summary throws)
PollSuccess(t, result) ==
  /\ polls[t] > 0
  /\ polls' = [polls EXCEPT ![t] = @ - 1]
  /\ pollers' = pollers \ {pollingIntervalId}
  /\ progressBarWidth' = <<100, 1>>
  /\ allInfrastructureData' = result
  /\ IF SummaryThrows(result)
     THEN UNCHANGED <<detailsHidden, hideTimeouts, summaryContainer>>
     ELSE /\ hideTimeouts < MaxTimeouts
          /\ summaryContainer' = GenerateInfrastructureSummary(result)
          /\ detailsHidden' = FALSE
          /\ hideTimeouts' = hideTimeouts + 1
  /\ last' = Ran("PollSuccess", "none")
  /\ PollFrame
  /\ UNCHANGED <<tickers, loadingOverlayHidden>>

\* status FAILURE (lines 663-667)
PollFailure(t) ==
  /\ polls[t] > 0
  /\ polls' = [polls EXCEPT ![t] = @ - 1]
  /\ HideProgress
  /\ last' = Ran("PollFailure", "failure")
  /\ PollFrame
  /\ UNCHANGED summaryContainer
  /\ UNCHANGED <<allInfrastructureData, detailsHidden, hideTimeouts, progressBarWidth>>

\* the status request fails in transport (catch block, lines 668-676)
PollError(t) ==
  /\ polls[t] > 0
  /\ polls' = [polls EXCEPT ![t] = @ - 1]
  /\ IF ~WidthIs100
     THEN /\ HideProgress
          /\ last' = [Ran("PollError", "connection") EXCEPT
                        !.conn[t] = IF @ < MaxToasts THEN @ + 1 ELSE @]
     ELSE /\ pollers' = pollers \ {pollingIntervalId}
          /\ last' = Ran("PollError", "none")
          /\ UNCHANGED <<tickers, loadingOverlayHidden>>
  /\ PollFrame
  /\ UNCHANGED summaryContainer
  /\ UNCHANGED <<allInfrastructureData, detailsHidden, hideTimeouts, progressBarWidth>>

\* the timeout set by the SUCCESS branch runs hideProgress (line 661)
HideTimeout ==
  /\ hideTimeouts > 0
  /\ hideTimeouts' = hideTimeouts - 1
  /\ HideProgress
  /\ last' = Ran("HideTimeout", "none")
  /\ UNCHANGED <<scopeVars, allInfrastructureData, fetchBtnDisabled, selectVars,
                 detailsHidden, mainAppHidden, requests, exports, resets,
                 progressTimerInterval, pollingIntervalId, submits, polls, nextTask,
                 progressBarWidth, filterVars, fileVars, summaryVars>>

\* ------------------------------------------------------------------ export
\* values of responsibleNameInput, as sequences of characters
NameChars == {" ", "x"}
ResponsibleNames == UNION {[1..n -> NameChars] : n \in 0..MaxNameLen}

\* String.prototype.trim: leading and trailing white space removed
RECURSIVE TrimStart(_)
TrimStart(name) ==
  IF name # <<>> /\ Head(name) = " " THEN TrimStart(Tail(name)) ELSE name

RECURSIVE TrimEnd(_)
TrimEnd(name) ==
  IF name # <<>> /\ name[Len(name)] = " "
  THEN TrimEnd(SubSeq(name, 1, Len(name) - 1)) ELSE name

Trim_None(name) == name

Trim(name) == TrimEnd(TrimStart(name))

\* hasData of generateDocument (lines 1054-1057)
HasData(data) == ~data.isNull /\ (data.instances \/ data.clusters \/ data.vcns)

\* click on the generate button (lines 1046-1113)
GenerateDocument(name) ==
  /\ ~mainAppHidden /\ ~detailsHidden
  /\ IF Trim(name) = <<>>
     THEN /\ last' = [Ran("GenerateDocument", "name") EXCEPT !.name = name]
          /\ UNCHANGED <<exports, loadingOverlayHidden>>
     ELSE IF ~HasData(allInfrastructureData)
     THEN /\ last' = [Ran("GenerateDocument", "nodata") EXCEPT !.name = name]
          /\ UNCHANGED <<exports, loadingOverlayHidden>>
     ELSE /\ exports < MaxExports
          /\ exports' = exports + 1
          /\ loadingOverlayHidden' = FALSE
          /\ last' = [Ran("GenerateDocument", "none") EXCEPT !.name = name]
  /\ UNCHANGED <<scopeVars, allInfrastructureData, fetchBtnDisabled, selectVars,
                 detailsHidden, mainAppHidden, requests, resets, taskVars, filterVars, fileVars, summaryVars>>

\* the generate-document request ends (xhr.onload / onerror / onloadend, lines 1079-1113)
ExportDone(ok) ==
  /\ exports > 0
  /\ exports' = exports - 1
  /\ mainAppHidden' = (ok \/ mainAppHidden)
  /\ loadingOverlayHidden' = TRUE
  /\ last' = Ran("ExportDone", IF ok THEN "none" ELSE "export")
  /\ UNCHANGED <<scopeVars, allInfrastructureData, fetchBtnDisabled, selectVars,
                 detailsHidden, requests, resets, taskVars, filterVars, fileVars, summaryVars>>

\* ------------------------------------------------------------------- reset
\* initializeApp (lines 1204-1210); fetchRegions up to its await (lines 403-406)
\* ------------------------------------------------------------- attachments
Files == {"img"}
FileLists == {"architecture", "antivirus"}

\* fileArray.push(file)
Push(fileArray, file) == Append(fileArray, file)

\* fileArray.splice(indexToRemove, 1), indexToRemove counted from 1
Splice(fileArray, indexToRemove) ==
  [k \in 1..(Len(fileArray) - 1) |->
     IF k < indexToRemove THEN fileArray[k] ELSE fileArray[k + 1]]

FileFrame ==
  UNCHANGED <<scopeVars, allInfrastructureData, fetchBtnDisabled, selectVars,
              detailsHidden, mainAppHidden, loadingOverlayHidden, requests, exports,
              resets, taskVars, filterVars, summaryVars>>

\* a file is chosen in one of the two upload inputs
HandleFileSelect(list, file) ==
  /\ ~mainAppHidden /\ ~detailsHidden
  /\ IF list = "architecture"
     THEN /\ Len(architectureImageFiles) < MaxFiles
          /\ architectureImageFiles' = Push(architectureImageFiles, file)
          /\ UNCHANGED antivirusImageFiles
     ELSE /\ Len(antivirusImageFiles) < MaxFiles
          /\ antivirusImageFiles' = Push(antivirusImageFiles, file)
          /\ UNCHANGED architectureImageFiles
  /\ last' = Ran("HandleFileSelect", "none")
  /\ FileFrame

\* an image is pasted into one of the two upload groups
HandlePaste(list, file) ==
  /\ ~mainAppHidden /\ ~detailsHidden
  /\ IF list = "architecture"
     THEN /\ Len(architectureImageFiles) < MaxFiles
          /\ architectureImageFiles' = Push(architectureImageFiles, file)
          /\ UNCHANGED antivirusImageFiles
     ELSE /\ Len(antivirusImageFiles) < MaxFiles
          /\ antivirusImageFiles' = Push(antivirusImageFiles, file)
          /\ UNCHANGED architectureImageFiles
  /\ last' = Ran("HandlePaste", "none")
  /\ FileFrame

\* the delete button of a listed file is activated
HandleFileDelete(list, indexToRemove) ==
  /\ ~mainAppHidden /\ ~detailsHidden
  /\ IF list = "architecture"
     THEN /\ indexToRemove \in 1..Len(architectureImageFiles)
          /\ architectureImageFiles' = Splice(architectureImageFiles, indexToRemove)
          /\ UNCHANGED antivirusImageFiles
     ELSE /\ indexToRemove \in 1..Len(antivirusImageFiles)
          /\ antivirusImageFiles' = Splice(antivirusImageFiles, indexToRemove)
          /\ UNCHANGED architectureImageFiles
  /\ last' = Ran("HandleFileDelete", "none")
  /\ FileFrame

InitializeApp ==
  /\ loadingOverlayHidden' = FALSE
  /\ requests' = Send(requests, RegionsReq)
  /\ compartmentSelect' = EmptyCompartmentSelect
  /\ instanceSelect' = EmptyInstanceSelect
  /\ instanceStepHidden' = TRUE

\* click on the new-document button of the success screen: resetApp (lines 161-181)
ResetApp_KeepName ==
  /\ mainAppHidden
  /\ resets < MaxResets
  /\ InFlight < MaxInFlight
  /\ resets' = resets + 1
  /\ mainAppHidden' = FALSE
  /\ selectedRegion' = Null
  /\ selectedDocType' = Null
  /\ selectedCompartmentId' = Null
  /\ UNCHANGED selectedCompartmentName
  /\ selectedInstances' = {}
  /\ allInfrastructureData' = EmptyData
  /\ detailsHidden' = TRUE
  /\ InitializeApp
  /\ last' = RanOn("ResetApp")
  /\ architectureImageFiles' = <<>>
  /\ antivirusImageFiles' = <<>>
  /\ summaryContainer' = EmptySummary
  /\ UNCHANGED <<fetchBtnDisabled, regionSelect, exports, taskVars, filterVars>>

ResetApp ==
  /\ mainAppHidden
  /\ resets < MaxResets
  /\ InFlight < MaxInFlight
  /\ resets' = resets + 1
  /\ mainAppHidden' = FALSE
  /\ selectedRegion' = Null
  /\ selectedDocType' = Null
  /\ selectedCompartmentId' = Null
  /\ selectedCompartmentName' = Null
  /\ selectedInstances' = {}
  /\ allInfrastructureData' = EmptyData
  /\ detailsHidden' = TRUE
  /\ InitializeApp
  /\ last' = RanOn("ResetApp")
  /\ architectureImageFiles' = <<>>
  /\ antivirusImageFiles' = <<>>
  /\ summaryContainer' = EmptySummary
  /\ UNCHANGED <<fetchBtnDisabled, regionSelect, exports, taskVars, filterVars>>

\* ------------------------------------------------------------ search filter
\* texts are sequences of characters; toUpperCase maps each character.
\* Chars: the characters a query is typed from
Chars == {"a", "B"}
UpperChar(ch) == CASE ch = "a" -> "A" [] ch = "b" -> "B" [] OTHER -> ch
ToUpperCase(str) == [k \in 1..Len(str) |-> UpperChar(str[k])]

\* str.indexOf(sub) > -1
IndexOfFound(str, sub) ==
  \E off \in 0..(Len(str) - Len(sub)) : \A k \in 1..Len(sub) : str[off + k] = sub[k]

\* parseInt(item.dataset.level, 10) of an item rendered without a level
NaN == -1
\* a < b on numbers, false as soon as one side is NaN
Less(a, b) == a # NaN /\ b # NaN /\ a < b

\* itemsToShow.add(item): a Set keeps insertion order and ignores duplicates
SetAdd(show, i) == IF \E k \in 1..Len(show) : show[k] = i THEN show ELSE Append(show, i)

\* the for loop without the update of currentLevel (line 273): it keeps every preceding
\* node below the level of the match, up to the first level-0 node
RECURSIVE WalkUp_KeepLevel(_, _, _, _)
WalkUp_KeepLevel(ns, i, currentLevel, show) ==
  IF i < 1 THEN show
  ELSE IF Less(ns[i].level, currentLevel)
       THEN IF ns[i].level = 0 THEN SetAdd(show, i)
            ELSE WalkUp_KeepLevel(ns, i - 1, currentLevel, SetAdd(show, i))
       ELSE WalkUp_KeepLevel(ns, i - 1, currentLevel, show)

\* the for loop of lines 268-276, from index i downwards
RECURSIVE WalkUp(_, _, _, _)
WalkUp(ns, i, currentLevel, show) ==
  IF i < 1 THEN show
  ELSE IF Less(ns[i].level, currentLevel)
       THEN IF ns[i].level = 0 THEN SetAdd(show, i)
            ELSE WalkUp(ns, i - 1, ns[i].level, SetAdd(show, i))
       ELSE WalkUp(ns, i - 1, currentLevel, show)

\* itemsToShow.forEach of lines 264-277; forEach also visits the items added meanwhile
RECURSIVE ForEachShow(_, _, _)
ForEachShow(ns, show, k) ==
  IF k > Len(show) THEN show
  ELSE LET currentLevel == ns[show[k]].level IN
       IF currentLevel = NaN \/ currentLevel = 0
       THEN ForEachShow(ns, show, k + 1)
       ELSE ForEachShow(ns, WalkUp(ns, show[k] - 1, currentLevel, show), k + 1)

\* the literal matches in list order (lines 258-263)
RECURSIVE MatchesFrom(_, _, _)
MatchesFrom(ns, filter, i) ==
  IF i > Len(ns) THEN <<>>
  ELSE IF IndexOfFound(ToUpperCase(ns[i].text), filter)
       THEN <<i>> \o MatchesFrom(ns, filter, i + 1)
       ELSE MatchesFrom(ns, filter, i + 1)

\* the input handler hiding the items that do not match without showing the others again
SearchInput_KeepHidden(ns, disp, value) ==
  LET filter == ToUpperCase(value) IN
  IF filter = <<>> THEN [i \in 1..Len(ns) |-> ""]
  ELSE LET show == ForEachShow(ns, MatchesFrom(ns, filter, 1), 1) IN
       [i \in 1..Len(ns) |-> IF \E k \in 1..Len(show) : show[k] = i THEN disp[i] ELSE "none"]

\* the input handler of the search box (lines 251-279): the new style.display of every item
SearchInput(ns, disp, value) ==
  LET filter == ToUpperCase(value) IN
  IF filter = <<>> THEN [i \in 1..Len(ns) |-> ""]
  ELSE LET show == ForEachShow(ns, MatchesFrom(ns, filter, 1), 1) IN
       [i \in 1..Len(ns) |-> IF \E k \in 1..Len(show) : show[k] = i THEN "" ELSE "none"]

\* the user types into the search box
TypeQuery(value) ==
  /\ searchValue' = value
  /\ display' = SearchInput(nodes, display, value)
  /\ last' = [Ran("TypeQuery", "none") EXCEPT
                !.hadHidden = \E i \in 1..Len(nodes) : display[i] = "none"]
  /\ UNCHANGED <<scopeVars, allInfrastructureData, fetchBtnDisabled, selectVars,
                 detailsHidden, mainAppHidden, loadingOverlayHidden, requests, exports,
                 resets, taskVars, nodes, fileVars, summaryVars>>

\* the option lists the filter is checked on
Texts == {<<"A", "b">>, <<"b">>}

RECURSIVE SeqsUpTo(_, _)
SeqsUpTo(S, n) ==
  IF n = 0 THEN {<<>>}
  ELSE LET shorter == SeqsUpTo(S, n - 1) IN
       shorter \cup {Append(q, x) : q \in shorter, x \in S}

Queries == SeqsUpTo(Chars, MaxQueryLen)

\* a flattened tree: the first node at level 0, a node at most one level below its predecessor
DepthOrdered(levels) ==
  /\ levels[1] = 0
  /\ \A i \in 2..Len(levels) : levels[i] <= levels[i - 1] + 1

\* compartment lists carry levels; region and instance lists carry none
NodeLists ==
  LET levelSeqs == {l \in SeqsUpTo(0..MaxDepth, MaxNodes) : l # <<>> /\ DepthOrdered(l)}
      flatSeqs  == {[i \in 1..n |-> NaN] : n \in 1..MaxNodes}
  IN UNION {{[i \in 1..Len(l) |-> [level |-> l[i], text |-> t[i]]] :
               t \in [1..Len(l) -> Texts]} : l \in levelSeqs \cup flatSeqs}

\* a freshly rendered list with an empty search box
FilterInit ==
  /\ selectedRegion = Null
  /\ selectedDocType = Null
  /\ selectedCompartmentId = Null
  /\ selectedCompartmentName = Null
  /\ selectedInstances = {}
  /\ allInfrastructureData = EmptyData
  /\ architectureImageFiles = <<>>
  /\ antivirusImageFiles = <<>>
  /\ summaryContainer = EmptySummary
  /\ progressTimerInterval = NoHandle
  /\ pollingIntervalId = NoHandle
  /\ fetchBtnDisabled = TRUE
  /\ regionSelect = FALSE
  /\ compartmentSelect = EmptyCompartmentSelect
  /\ instanceSelect = EmptyInstanceSelect
  /\ instanceStepHidden = TRUE
  /\ detailsHidden = TRUE
  /\ mainAppHidden = FALSE
  /\ loadingOverlayHidden = FALSE
  /\ progressBarWidth = <<0, 1>>
  /\ requests = [rq \in ReqSpace |-> IF rq = RegionsReq THEN 1 ELSE 0]
  /\ submits = [t \in Tasks |-> NoSubmit]
  /\ tickers = {}
  /\ pollers = {}
  /\ polls = [t \in Tasks |-> 0]
  /\ hideTimeouts = 0
  /\ exports = 0
  /\ nextTask = 1
  /\ resets = 0
  /\ last = NotRun("Init")
  /\ nodes \in NodeLists
  /\ display = [i \in 1..Len(nodes) |-> ""]
  /\ searchValue = <<>>

FilterStep == \E value \in Queries : TypeQuery(value)

FilterSpec == FilterInit /\ [][FilterStep]_vars

\* ------------------------------------------------------------ specification
\* the page once the DOMContentLoaded handler has run (lines 57-67, 1204-1234)
Init ==
  /\ selectedRegion = Null
  /\ selectedDocType = Null
  /\ selectedCompartmentId = Null
  /\ selectedCompartmentName = Null
  /\ selectedInstances = {}
  /\ allInfrastructureData = EmptyData
  /\ architectureImageFiles = <<>>
  /\ antivirusImageFiles = <<>>
  /\ summaryContainer = EmptySummary
  /\ progressTimerInterval = NoHandle
  /\ pollingIntervalId = NoHandle
  /\ fetchBtnDisabled = TRUE
  /\ regionSelect = FALSE
  /\ compartmentSelect = EmptyCompartmentSelect
  /\ instanceSelect = EmptyInstanceSelect
  /\ instanceStepHidden = TRUE
  /\ detailsHidden = TRUE
  /\ mainAppHidden = FALSE
  /\ loadingOverlayHidden = FALSE
  /\ progressBarWidth = <<0, 1>>
  /\ requests = [rq \in ReqSpace |-> IF rq = RegionsReq THEN 1 ELSE 0]
  /\ submits = [t \in Tasks |-> NoSubmit]
  /\ tickers = {}
  /\ pollers = {}
  /\ polls = [t \in Tasks |-> 0]
  /\ hideTimeouts = 0
  /\ exports = 0
  /\ nextTask = 1
  /\ resets = 0
  /\ last = NotRun("Init")
  /\ nodes = <<>>
  /\ display = <<>>
  /\ searchValue = <<>>

Next ==
  \/ \E v \in Regions : SelectRegion(v)
  \/ \E v \in DocTypes : SelectDocType(v)
  \/ \E v \in Compartments : SelectCompartment(v)
  \/ \E v \in Instances : ToggleInstance(v)
  \/ \E ok \in BOOLEAN : RegionsResponse(ok)
  \/ \E r \in Regions, ok \in BOOLEAN : CompartmentsResponse(r, ok)
  \/ \E r \in Regions, c \in Compartments, ok \in BOOLEAN : InstancesResponse(r, c, ok)
  \/ FetchAllDetails
  \/ \E t \in Tasks : SubmitAccepted(t)
  \/ \E t \in Tasks : SubmitFailed(t)
  \/ \E t \in Tasks : PollTick(t)
  \/ \E t \in Tasks : PollNotOk(t)
  \/ \E t \in Tasks : PollPending(t)
  \/ \E t \in Tasks, info \in ProgressInfos : PollProgress(t, info)
  \/ \E t \in Tasks, result \in Results : PollSuccess(t, result)
  \/ \E t \in Tasks : PollFailure(t)
  \/ \E t \in Tasks : PollError(t)
  \/ HideTimeout
  \/ \E name \in ResponsibleNames : GenerateDocument(name)
  \/ \E ok \in BOOLEAN : ExportDone(ok)
  \/ ResetApp
  \/ \E list \in FileLists, file \in Files : HandleFileSelect(list, file)
  \/ \E list \in FileLists, file \in Files : HandlePaste(list, file)
  \/ \E list \in FileLists, i \in 1..MaxFiles : HandleFileDelete(list, i)

\* the scope handlers and the scope-load continuations
ScopeStep ==
  \/ \E v \in Regions : SelectRegion(v)
  \/ \E v \in DocTypes : SelectDocType(v)
  \/ \E v \in Compartments : SelectCompartment(v)
  \/ \E v \in Instances : ToggleInstance(v)
  \/ \E ok \in BOOLEAN : RegionsResponse(ok)
  \/ \E r \in Regions, ok \in BOOLEAN : CompartmentsResponse(r, ok)
  \/ \E r \in Regions, c \in Compartments, ok \in BOOLEAN : InstancesResponse(r, c, ok)

\* the session while no collection has been submitted
ScopeSpec == Init /\ [][ScopeStep]_vars

\* a session whose scope is complete and whose loads have all been answered:
\* region r1, compartment c1 and, for new_host, instance i1 (reached under ScopeSpec)
ScopeReady(docType) ==
  /\ selectedRegion = "r1"
  /\ selectedDocType = docType
  /\ selectedCompartmentId = "c1"
  /\ selectedCompartmentName = NameOf("c1")
  /\ selectedInstances = IF docType = "new_host" THEN {"i1"} ELSE {}
  /\ allInfrastructureData = EmptyData
  /\ architectureImageFiles = <<>>
  /\ antivirusImageFiles = <<>>
  /\ summaryContainer = EmptySummary
  /\ progressTimerInterval = NoHandle
  /\ pollingIntervalId = NoHandle
  /\ fetchBtnDisabled = FALSE
  /\ regionSelect = TRUE
  /\ compartmentSelect = [enabled |-> TRUE, region |-> "r1"]
  /\ instanceSelect = IF docType = "new_host"
                      THEN [enabled |-> TRUE, region |-> "r1", compartment |-> "c1",
                            checked |-> {"i1"}]
                      ELSE EmptyInstanceSelect
  /\ instanceStepHidden = (docType # "new_host")
  /\ detailsHidden = TRUE
  /\ mainAppHidden = FALSE
  /\ loadingOverlayHidden = TRUE
  /\ progressBarWidth = <<0, 1>>
  /\ requests = [rq \in ReqSpace |-> 0]
  /\ submits = [t \in Tasks |-> NoSubmit]
  /\ tickers = {}
  /\ pollers = {}
  /\ polls = [t \in Tasks |-> 0]
  /\ hideTimeouts = 0
  /\ exports = 0
  /\ nextTask = 1
  /\ resets = 0
  /\ last = IF docType = "new_host"
            THEN [NotRun("ToggleInstance") EXCEPT !.hadComp = TRUE]
            ELSE NotRun("SelectCompartment")
  /\ nodes = <<>>
  /\ display = <<>>
  /\ searchValue = <<>>

TaskInit == ScopeReady("new_host") \/ ScopeReady("full_infra")

\* ------------------------------------------------ rendering of a SUCCESS result
CpeIds == {"p1", "p2"}
DrgIds == {"d1", "d2"}
DisplayNames == {"", "n"}

Collections(ids) ==
  {AbsentCollection} \cup
  {Collection(items) :
     items \in SeqsUpTo([id : ids, display_name : DisplayNames], MaxEntries)}

IpsecLists == SeqsUpTo([cpe_id : CpeIds, drg_id : DrgIds], MaxIpsec)

\* data.result of a SUCCESS status of a full_infra task, with its VPN collections
SummaryInputs ==
  {[Snapshot(FALSE, FALSE, TRUE) EXCEPT !.cpes = c, !.drgs = d, !.ipsec_connections = x] :
     c \in Collections(CpeIds), d \in Collections(DrgIds), x \in IpsecLists}

\* task 1 of a full_infra scope submitted and accepted, its first status request sent
SummaryInit ==
  /\ selectedRegion = "r1"
  /\ selectedDocType = "full_infra"
  /\ selectedCompartmentId = "c1"
  /\ selectedCompartmentName = NameOf("c1")
  /\ selectedInstances = {}
  /\ allInfrastructureData = EmptyData
  /\ architectureImageFiles = <<>>
  /\ antivirusImageFiles = <<>>
  /\ summaryContainer = EmptySummary
  /\ progressTimerInterval = 1
  /\ pollingIntervalId = 1
  /\ fetchBtnDisabled = FALSE
  /\ regionSelect = TRUE
  /\ compartmentSelect = [enabled |-> TRUE, region |-> "r1"]
  /\ instanceSelect = EmptyInstanceSelect
  /\ instanceStepHidden = TRUE
  /\ detailsHidden = TRUE
  /\ mainAppHidden = FALSE
  /\ loadingOverlayHidden = FALSE
  /\ progressBarWidth = <<0, 1>>
  /\ requests = [rq \in ReqSpace |-> 0]
  /\ submits = [t \in Tasks |-> IF t = 1 THEN [state |-> "accepted", payload |-> Payload]
                                 ELSE NoSubmit]
  /\ tickers = {1}
  /\ pollers = {1}
  /\ polls = [t \in Tasks |-> IF t = 1 THEN 1 ELSE 0]
  /\ hideTimeouts = 0
  /\ exports = 0
  /\ nextTask = 2
  /\ resets = 0
  /\ last = NotRun("PollTick")
  /\ nodes = <<>>
  /\ display = <<>>
  /\ searchValue = <<>>

SummaryStep ==
  \/ \E result \in SummaryInputs : PollSuccess(1, result)
  \/ HideTimeout

SummarySpec == SummaryInit /\ [][SummaryStep]_vars

\* the collection task, the export and the reset
TaskStep ==
  \/ FetchAllDetails
  \/ \E t \in Tasks : SubmitAccepted(t)
  \/ \E t \in Tasks : SubmitFailed(t)
  \/ \E t \in Tasks : PollTick(t)
  \/ \E t \in Tasks : PollNotOk(t)
  \/ \E t \in Tasks : PollPending(t)
  \/ \E t \in Tasks, info \in ProgressInfos : PollProgress(t, info)
  \/ \E t \in Tasks, result \in Results : PollSuccess(t, result)
  \/ \E t \in Tasks : PollFailure(t)
  \/ \E t \in Tasks : PollError(t)
  \/ HideTimeout
  \/ \E name \in ResponsibleNames : GenerateDocument(name)
  \/ \E ok \in BOOLEAN : ExportDone(ok)
  \/ ResetApp
  \/ \E ok \in BOOLEAN : RegionsResponse(ok)

\* the session from a complete scope on, the scope left as it is until a reset
TaskSpec == TaskInit /\ [][TaskStep]_vars

\* the session from a complete scope on with a single submission, its polling with
\* each status request answered before the next tick, the attachments, the export and
\* the reset; the document type may be changed at any time
ExportStep ==
  \/ \E v \in DocTypes : SelectDocType(v)
  \/ FetchAllDetails /\ nextTask = 1
  \/ SubmitAccepted(1)
  \/ SubmitFailed(1)
  \/ PollTick(1) /\ polls[1] = 0
  \/ PollNotOk(1)
  \/ PollPending(1)
  \/ \E info \in ProgressInfos : PollProgress(1, info)
  \/ \E result \in Results : PollSuccess(1, result)
  \/ PollFailure(1)
  \/ PollError(1)
  \/ HideTimeout
  \/ \E list \in FileLists, file \in Files : HandleFileSelect(list, file)
  \/ \E list \in FileLists, file \in Files : HandlePaste(list, file)
  \/ \E list \in FileLists, i \in 1..MaxFiles : HandleFileDelete(list, i)
  \/ \E name \in ResponsibleNames : GenerateDocument(name)
  \/ \E ok \in BOOLEAN : ExportDone(ok)
  \/ ResetApp
  \/ \E ok \in BOOLEAN : RegionsResponse(ok)

ExportSpec == TaskInit /\ [][ExportStep]_vars

\* violated under ScopeSpec: ScopeSpec reaches the states TaskSpec starts from
ScopeNeverReady == ~ScopeReady("new_host")
ScopeNeverReadyInfra == ~ScopeReady("full_infra")

\* The whole page. ScopeSpec, TaskSpec and FilterSpec take some of the disjuncts of Next:
\* every behaviour of one of them is a behaviour of the page (TaskSpec and FilterSpec from
\* a state the page reaches, resp. from a list it renders).
Spec == Init /\ [][Next]_vars

TypeOK ==
  /\ selectedRegion \in Regions \cup {Null}
  /\ selectedDocType \in DocTypes \cup {Null}
  /\ selectedCompartmentId \in Compartments \cup {Null}
  /\ selectedInstances \subseteq Instances
  /\ tickers \subseteq Tasks /\ pollers \subseteq Tasks
  /\ InFlight <= MaxInFlight

\* ================================================================== claims

\* the tasks the client tracks: start-collection in flight, or the poller running
LiveTasks == {t \in Tasks : submits[t].state = "inflight" \/ t \in pollers}

\* C1: at most one collection task is live at any time: a click on the fetch button while a
\* task is Submitting, Pending or Progress starts no second task.
C1_SingleLiveTask == Cardinality(LiveTasks) <= 1

\* C2: once a task has been stopped (its submission answered, its poller no longer running,
\* no deferred hideProgress pending), its ticker is stopped too. Taken on sessions with a
\* single submission, so that no other task's handles are involved.
C2_JointCancellation ==
  (nextTask = 2 /\ submits[1].state # "inflight" /\ hideTimeouts = 0 /\ 1 \notin pollers)
    => 1 \notin tickers

\* C3: a step that changes the selected region leaves no compartment id and no instance
\* selected.
C3_RegionCascade ==
  [][selectedRegion' # selectedRegion
       => (selectedCompartmentId' = Null /\ selectedInstances' = {})]_vars

\* a region change has just emptied a scope that held a compartment and an instance
C3_Witness ==
  /\ last.op = "SelectRegion" /\ last.hadComp /\ last.hadInst
  /\ selectedRegion # Null
  /\ selectedCompartmentId = Null /\ selectedInstances = {}

\* C4: selecting a compartment leaves no instance selected, under every document kind.
C4_CompartmentCascade ==
  [][last'.op = "SelectCompartment" => selectedInstances' = {}]_vars

\* a compartment was selected outside new_host while instances were selected
C4_Witness ==
  /\ last.op = "SelectCompartment" /\ last.hadInst
  /\ selectedDocType = "full_infra"
  /\ selectedCompartmentId # Null /\ selectedInstances = {}

\* C5: a step that changes the selected region leaves no compartment name behind.
C5_RegionClearsName ==
  [][selectedRegion' # selectedRegion => selectedCompartmentName' = Null]_vars

\* C6: after a change of compartment the instance list no longer offers the instances loaded
\* for the compartment selected before, under every document kind.
C6_InstanceLevelReloaded ==
  [][(last'.op = "SelectCompartment" /\ selectedCompartmentId # Null
        /\ selectedCompartmentId' # selectedCompartmentId)
       => ~(instanceSelect'.enabled
            /\ instanceSelect'.compartment = selectedCompartmentId)]_vars

\* C7: a response that replaces an option list carries the list of the current selection:
\* compartments of the selected region, instances of the selected region and compartment.
C7_LateResponseDiscarded ==
  [][/\ (last'.op = "CompartmentsResponse" /\ compartmentSelect' # compartmentSelect)
          => compartmentSelect'.region = selectedRegion
     /\ (last'.op = "InstancesResponse" /\ instanceSelect' # instanceSelect)
          => (instanceSelect'.region = selectedRegion
              /\ instanceSelect'.compartment = selectedCompartmentId)]_vars

\* case-insensitive comparison of two characters, by lower case
LowerChar(ch) == CASE ch = "A" -> "a" [] ch = "B" -> "b" [] OTHER -> ch
\* node i matches the query: the query is a case-insensitive substring of its text
IsMatch(i) ==
  \E off \in 0..(Len(nodes[i].text) - Len(searchValue)) :
    \A k \in 1..Len(searchValue) :
      LowerChar(nodes[i].text[off + k]) = LowerChar(searchValue[k])
\* node j is on the chain of nearest preceding nodes of strictly smaller depth of node i
IsAncestor(j, i) ==
  /\ j < i /\ nodes[j].level # NaN
  /\ \A k \in (j + 1)..i : nodes[k].level # NaN /\ nodes[k].level > nodes[j].level
Visible == {i \in 1..Len(nodes) : display[i] = ""}

\* C8: under a non-empty query the visible nodes are the matches together with the ancestor
\* chain of every match; every visible node that does not match has a visible matching
\* descendant.
C8_AncestorClosure ==
  searchValue # <<>> =>
    /\ Visible = {i \in 1..Len(nodes) :
                    IsMatch(i) \/ \E m \in 1..Len(nodes) : IsMatch(m) /\ IsAncestor(i, m)}
    /\ \A i \in Visible :
         ~IsMatch(i) => \E m \in Visible : IsMatch(m) /\ IsAncestor(i, m)

\* a match at depth 2 keeps its two non-matching ancestors visible while another node is hidden
C8_Witness ==
  /\ searchValue # <<>>
  /\ \E m \in Visible :
       /\ IsMatch(m) /\ nodes[m].level = 2
       /\ \E p, g \in Visible : /\ p # g /\ ~IsMatch(p) /\ ~IsMatch(g)
                                /\ IsAncestor(p, m) /\ IsAncestor(g, m)
  /\ Visible # 1..Len(nodes)

\* C9: a search input never reorders the list, and the visibility it leaves is the one the
\* same query gives on a freshly rendered list; the empty query shows every node.
C9_FilterStateless ==
  [][/\ nodes' = nodes
     /\ display' = SearchInput(nodes, [i \in 1..Len(nodes) |-> ""], searchValue')
     /\ (searchValue' = <<>> => \A i \in 1..Len(nodes) : display'[i] = "")]_vars

\* a query has just been applied on a list in which an earlier query had hidden a node,
\* and shows a node again
C9_Witness ==
  /\ last.op = "TypeQuery" /\ last.hadHidden
  /\ searchValue # <<>>
  /\ Visible # {}

\* the submission-ready predicate of the scope selection
SubmissionReady ==
  \/ selectedDocType = "new_host" /\ selectedInstances # {}
  \/ selectedDocType # "new_host" /\ selectedCompartmentId # Null

\* C10: the fetch button is enabled exactly when the scope selection is submission-ready.
C10_SubmissionGate == (~fetchBtnDisabled) <=> SubmissionReady

\* C11: choosing a document type leaves the region, the compartment id and name and the
\* chosen instances as they were; it sets the document type, shows or hides the instance
\* step accordingly and re-evaluates the fetch button for the new type.
C11_DocTypeFrame ==
  [][last'.op = "SelectDocType" =>
       /\ UNCHANGED <<selectedRegion, selectedCompartmentId, selectedCompartmentName,
                      selectedInstances>>
       /\ instanceStepHidden' = (selectedDocType' # "new_host")
       /\ fetchBtnDisabled' =
            ~(\/ selectedDocType' = "new_host" /\ selectedInstances # {}
              \/ selectedDocType' # "new_host" /\ selectedCompartmentId # Null)]_vars

\* the document type has just been changed away from new_host while a compartment and
\* instances were chosen, and they are still chosen
C11_Witness ==
  /\ last.op = "SelectDocType" /\ last.hadComp /\ last.hadInst
  /\ selectedDocType \notin {Null, "new_host"}
  /\ selectedCompartmentId # Null /\ selectedCompartmentName # Null
  /\ selectedInstances # {}

\* C12: in a session with a single submission, the step that handles a SUCCESS status
\* leaves the task's poller stopped, its ticker stopped or about to be stopped by the
\* deferred hideProgress, and the details container (with the generate button) shown
\* whenever the stored snapshot has a populated collection.
C12_SuccessSettles ==
  [][(last'.op = "PollSuccess" /\ nextTask = 2) =>
       /\ allInfrastructureData' \in Results
       /\ 1 \notin pollers'
       /\ (1 \notin tickers' \/ hideTimeouts' > 0)
       /\ (HasData(allInfrastructureData') => ~detailsHidden')]_vars

\* the tasks whose status request is answered by the step
Answered == {t \in Tasks : polls'[t] < polls[t]}

\* C13: the step that handles a FAILURE status leaves the ticker and the poller of the
\* answered task stopped, shows the server-failure toast, leaves the scope selection as
\* it was and the fetch button enabled.
C13_FailureStops ==
  [][last'.op = "PollFailure" =>
       /\ \A t \in Answered : t \notin tickers' /\ t \notin pollers'
       /\ last'.toast = "failure"
       /\ UNCHANGED scopeVars
       /\ ~fetchBtnDisabled']_vars

\* C14: the polls of one task raise the connection-error toast at most once.
C14_NetworkErrorOnce == \A t \in Tasks : last.conn[t] <= 1

\* C15: a status request that fails in transport while the bar is at 100% raises no toast
\* and leaves the poller of the answered task stopped.
C15_ErrorAtFullSwallowed ==
  [][(last'.op = "PollError" /\ WidthIs100) =>
       /\ last'.toast = "none"
       /\ \A t \in Answered : t \notin pollers']_vars

\* C16: after a resetApp step taken while no deferred hideProgress is pending, no ticker
\* and no poller is running.
C16_ResetStopsTimers ==
  [][(last'.op = "ResetApp" /\ hideTimeouts = 0) => (tickers' = {} /\ pollers' = {})]_vars

\* C17: after a resetApp step the region, the document type, the compartment id and name
\* are null, no instance is chosen, and the snapshot and both attachment lists are empty.
C17_ResetClears ==
  [][last'.op = "ResetApp" =>
       /\ selectedRegion' = Null /\ selectedDocType' = Null
       /\ selectedCompartmentId' = Null /\ selectedCompartmentName' = Null
       /\ selectedInstances' = {}
       /\ allInfrastructureData' = EmptyData
       /\ architectureImageFiles' = <<>> /\ antivirusImageFiles' = <<>>]_vars

\* a reset has just run on a selection with a compartment and an instance chosen, and has
\* emptied a populated snapshot and a non-empty attachment list
C17_Witness ==
  /\ last.op = "ResetApp" /\ last.hadComp /\ last.hadInst /\ last.hadFiles
  /\ selectedRegion = Null /\ selectedCompartmentName = Null
  /\ allInfrastructureData = EmptyData
  /\ architectureImageFiles = <<>> /\ antivirusImageFiles = <<>>

\* the tasks whose start-collection request is rejected by the step
Rejected == {t \in Tasks : submits[t].state = "inflight" /\ submits'[t].state = "rejected"}

\* C18: the step that handles a failed start-collection request shows the submission
\* error, leaves the task without a poller and with its ticker stopped, and leaves the
\* scope selection as it was.
C18_SubmitFailureIdle ==
  [][last'.op = "SubmitFailed" =>
       /\ last'.toast = "submit"
       /\ \A t \in Rejected : t \notin pollers' /\ t \notin tickers'
       /\ UNCHANGED scopeVars]_vars

\* C19: once a later submission has been made, the answer to a status request of an
\* earlier task changes neither the snapshot, nor the progress bar, the overlay or the
\* details container, raises no toast, and leaves the poller of the latest task running.
C19_Supersede ==
  [][\A t \in Answered : t < nextTask - 1 =>
       /\ UNCHANGED <<allInfrastructureData, progressBarWidth, loadingOverlayHidden,
                      detailsHidden>>
       /\ last'.toast = "none"
       /\ ((nextTask - 1) \in pollers => (nextTask - 1) \in pollers')]_vars

\* the snapshot has a populated collection relevant to the selected document type
RelevantData ==
  /\ ~allInfrastructureData.isNull
  /\ IF selectedDocType = "new_host"
     THEN allInfrastructureData.instances
     ELSE \/ allInfrastructureData.instances
          \/ allInfrastructureData.clusters
          \/ allInfrastructureData.vcns

\* C20: a generateDocument call with a responsible name filled in sends the export
\* request exactly when the snapshot has a populated collection relevant to the selected
\* document type.
C20_ExportGate ==
  [][(last'.op = "GenerateDocument" /\ last'.toast # "name") =>
       ((exports' = exports + 1) <=> RelevantData)]_vars

\* a name is blank when it is empty or holds white space only
IsBlank(name) == \A i \in 1..Len(name) : name[i] = " "

\* C21: a generateDocument call that reads a blank responsible name shows the name
\* error, sends no export request and leaves the snapshot and the scope selection as
\* they were.
C21_BlankNameRejected ==
  [][(last'.op = "GenerateDocument" /\ IsBlank(last'.name)) =>
       /\ last'.toast = "name"
       /\ exports' = exports
       /\ UNCHANGED <<scopeVars, allInfrastructureData>>]_vars

\* a generateDocument call has just been rejected for a white-space name although the
\* snapshot had data to export
C21_Witness ==
  /\ last.op = "GenerateDocument" /\ last.toast = "name"
  /\ last.name # <<>> /\ IsBlank(last.name)
  /\ HasData(allInfrastructureData)
  /\ exports = 0

\* the ids of the entries of a collection
IdsIn(coll) == {coll.items[k].id : k \in 1..Len(coll.items)}

\* C22: when a SUCCESS result whose cpes and drgs collections are present has been
\* handled, the summary is rendered and the details are shown, and every IPSec connection
\* whose cpe_id (drg_id) matches no entry of cpes (drgs) shows the not-found text for it.
C22_DanglingTolerated ==
  LET data == allInfrastructureData IN
  (last.op # "PollTick" /\ data.cpes.present /\ data.drgs.present) =>
    /\ ~detailsHidden
    /\ summaryContainer.rendered
    /\ Len(summaryContainer.ipsec) = Len(data.ipsec_connections)
    /\ \A n \in 1..Len(data.ipsec_connections) :
         /\ data.ipsec_connections[n].cpe_id \notin IdsIn(data.cpes)
              => summaryContainer.ipsec[n].cpeName = NotFound
         /\ data.ipsec_connections[n].drg_id \notin IdsIn(data.drgs)
              => summaryContainer.ipsec[n].drgName = NotFound

\* a SUCCESS result has just been handled whose connection names a CPE that is not in a
\* non-empty cpes collection and a DRG that is in drgs: the CPE shows as not found, the
\* DRG by its name
C22_Witness ==
  LET data == allInfrastructureData IN
  /\ last.op = "PollSuccess"
  /\ Len(data.ipsec_connections) > 0
  /\ data.cpes.present /\ data.cpes.items # <<>>
  /\ data.ipsec_connections[1].cpe_id \notin IdsIn(data.cpes)
  /\ data.drgs.present
  /\ data.ipsec_connections[1].drg_id \in IdsIn(data.drgs)
  /\ summaryContainer.rendered
  /\ summaryContainer.ipsec[1] = [cpeName |-> NotFound, drgName |-> "n"]
  /\ ~detailsHidden

\* C23: the step that handles a failed compartment (instance) load leaves the compartment
\* (instance) select without options, shows the load error, and leaves the scope
\* selection as it was.
C23_LoadFailureContained ==
  [][/\ (last'.op = "CompartmentsResponse" /\ last'.toast = "load")
          => (compartmentSelect' = EmptyCompartmentSelect /\ UNCHANGED scopeVars)
     /\ (last'.op = "InstancesResponse" /\ last'.toast = "load")
          => (instanceSelect' = EmptyInstanceSelect /\ UNCHANGED scopeVars)]_vars

\* C24: when the compartment list of the selected region has failed to load (the select
\* has no options and no request for the region is in flight), selecting that region
\* again sends a new compartments request; when the instance list of the selected
\* compartment has failed to load, selecting that compartment again sends a new instances
\* request.
C24_RetryByReselect ==
  [][/\ (/\ last'.op = "SelectRegion"
         /\ selectedRegion # Null /\ selectedRegion' = selectedRegion
         /\ ~compartmentSelect.enabled
         /\ requests[CompartmentsReq(selectedRegion)] = 0)
          => requests'[CompartmentsReq(selectedRegion)] = 1
     /\ (/\ last'.op = "SelectCompartment"
         /\ selectedDocType = "new_host"
         /\ selectedCompartmentId # Null /\ selectedCompartmentId' = selectedCompartmentId
         /\ ~instanceSelect.enabled
         /\ requests[InstancesReq(selectedRegion, selectedCompartmentId)] = 0)
          => requests'[InstancesReq(selectedRegion, selectedCompartmentId)] = 1]_vars

\* C25: after the step that reports a submission error, a status error, a FAILURE status
\* or a connection error, the task concerned has no poller running, so no further status
\* request is sent for it (a status request is sent only by a running poller, a
\* start-collection request only by fetchAllDetails).
C25_NoAutomaticRetry ==
  [][last'.toast \in {"submit", "status", "failure", "connection"} =>
       \A t \in Answered \cup Rejected : t \notin pollers']_vars

\* C26: a click on an instance option leaves the region, the document type and the
\* compartment id and name as they were; when it checks the box of v, v was not chosen
\* and is added, when it unchecks the box, v is removed, and no other member changes.
\* A click that only removes, right after a click that added to the empty set, gives the
\* empty set again.
C26_ToggleInstance ==
  [][last'.op = "ToggleInstance" =>
       /\ UNCHANGED <<selectedRegion, selectedDocType, selectedCompartmentId,
                      selectedCompartmentName>>
       /\ \E v \in Instances :
            \/ /\ v \notin instanceSelect.checked /\ v \in instanceSelect'.checked
               /\ v \notin selectedInstances
               /\ selectedInstances' = selectedInstances \cup {v}
            \/ /\ v \in instanceSelect.checked /\ v \notin instanceSelect'.checked
               /\ selectedInstances' = selectedInstances \ {v}
       /\ (/\ last.op = "ToggleInstance" /\ ~last.hadInst
           /\ selectedInstances' # selectedInstances
           /\ selectedInstances' \subseteq selectedInstances) => selectedInstances' = {}]_vars

\* two instances were toggled on and a click has just toggled one of them off: exactly
\* one is chosen, the one whose box is still checked
C26_Witness ==
  /\ last.op = "ToggleInstance" /\ last.hadInst
  /\ Cardinality(selectedInstances) = 1
  /\ instanceSelect.checked = selectedInstances
  /\ Cardinality(InstanceOptions) = 2

\* C27: the ticker of a task never runs while the task's poller has not been started,
\* that is while its start-collection request is still unanswered.
C27_StartedTogether ==
  \A t \in tickers : submits[t].state # "inflight"

\* C28: a PROGRESS status carrying {current, total} sets the bar to current/total*100
\* percent when total > 0 (1/4, 2/4, 3/4 give 25, 50, 75) and to 5 percent otherwise;
\* it stops neither the ticker nor the poller of any task and leaves every submission
\* as it was.
C28_ProgressPercentage ==
  [][(last'.op = "PollProgress" /\ last'.info # NoInfo) =>
       LET current == last'.info[1]
           total == last'.info[2]
           num == progressBarWidth'[1]
           den == progressBarWidth'[2] IN
         /\ total > 0 => (den > 0 /\ num * total = current * 100 * den)
         /\ ~(total > 0) => progressBarWidth' = <<5, 1>>
         /\ last'.info = <<1, 4>> => progressBarWidth' = <<25, 1>>
         /\ last'.info = <<2, 4>> => progressBarWidth' = <<50, 1>>
         /\ last'.info = <<3, 4>> => progressBarWidth' = <<75, 1>>
         /\ UNCHANGED <<tickers, pollers, submits>>]_vars

\* a PROGRESS status with total 0 has just been handled while the task is live with
\* both its ticker and its poller running
C28_Witness ==
  /\ last.op = "PollProgress" /\ last.info = <<0, 0>>
  /\ progressBarWidth = <<5, 1>>
  /\ 1 \in tickers /\ 1 \in pollers

\* C29: the payload of a submission is built from the scope as it is when the fetch
\* button is clicked: always the region, the document type and the compartment id; for
\* new_host also the selected instance ids and the compartment name, for every other
\* document type neither of them. While the request is unanswered the payload does not
\* follow later changes of the scope.
C29_PayloadFromScope ==
  [][/\ last'.op = "FetchAllDetails" =>
          LET payload == submits'[nextTask].payload IN
            /\ payload.region = selectedRegion
            /\ payload.doc_type = selectedDocType
            /\ payload.compartment_id = selectedCompartmentId
            /\ IF selectedDocType = "new_host"
               THEN /\ payload.type = "new_host"
                    /\ payload.instance_ids = selectedInstances
                    /\ payload.compartment_name = selectedCompartmentName
               ELSE /\ payload.type = "full_infra"
                    /\ payload.instance_ids = {}
                    /\ payload.compartment_name = Null
     /\ \A t \in Tasks :
          (submits[t].state = "inflight" /\ submits'[t].state = "inflight") =>
             submits'[t].payload = submits[t].payload]_vars

\* a submission made for another document type than new_host while instances were
\* still selected is unanswered: it carries the compartment id alone
C29_Witness ==
  /\ submits[1].state = "inflight"
  /\ submits[1].payload.doc_type = "kubernetes"
  /\ submits[1].payload.instance_ids = {}
  /\ selectedInstances # {}

\* a new_host submission carrying the selected instances is unanswered and the document
\* type has been changed since
C29_WitnessNewHost ==
  /\ submits[1].state = "inflight"
  /\ submits[1].payload.doc_type = "new_host"
  /\ submits[1].payload.instance_ids # {}
  /\ selectedDocType # "new_host"

\* C30: the poller of a task is stopped only by the handling of an answer to one of that
\* task's own status requests that is SUCCESS, FAILURE or an error, or by a new
\* submission; a PENDING or PROGRESS answer, and every other step, leaves it running.
C30_NoDeadline ==
  [][\A t \in Tasks :
       (t \in pollers /\ t \notin pollers') =>
          \/ last'.op = "FetchAllDetails"
          \/ /\ last'.op \in {"PollSuccess", "PollFailure", "PollNotOk", "PollError"}
             /\ t \in Answered]_vars

\* C31: every selected instance id is one of the instances the server lists for the
\* selected region and compartment.
C31_InstancesOfCompartment ==
  \A v \in selectedInstances :
     /\ selectedRegion # Null /\ selectedCompartmentId # Null
     /\ v \in InstancesIn(selectedRegion, selectedCompartmentId)

\* C32: whenever an instance is selected, a region and a compartment are selected.
C32_InstancesNeedCompartment ==
  selectedInstances # {} => (selectedRegion # Null /\ selectedCompartmentId # Null)

\* the instance list of the selected compartment is rendered, or its request is in flight
InstanceListComing ==
  \/ /\ instanceSelect.enabled
     /\ instanceSelect.region = selectedRegion
     /\ instanceSelect.compartment = selectedCompartmentId
  \/ requests[InstancesReq(selectedRegion, selectedCompartmentId)] > 0

\* C33: switching the document type to new_host while a region and a compartment are
\* selected leaves the instance list of that compartment rendered or being loaded.
C33_InstancesLoadedEitherOrder ==
  [][(/\ last'.op = "SelectDocType" /\ selectedDocType' = "new_host"
      /\ selectedRegion # Null /\ selectedCompartmentId # Null) => InstanceListComing']_vars

\* C34: a generate-document request is sent only with the document type under which the
\* task that produced the snapshot was submitted (one submission: task 1).
C34_ExportKindMatchesSnapshot ==
  [][(last'.op = "GenerateDocument" /\ last'.toast = "none") =>
       /\ submits[1].state = "accepted"
       /\ selectedDocType = submits[1].payload.doc_type]_vars

\* C35: a submission hides the details, and from then on only the SUCCESS of the task
\* submitted last shows them again or replaces the snapshot while they are shown: the
\* snapshot behind an open export gate is the result of the task submitted last.
C35_SnapshotOfLastTask ==
  [][/\ last'.op = "FetchAllDetails" => detailsHidden'
     /\ (nextTask > 1 /\ ~detailsHidden' /\
         (detailsHidden \/ allInfrastructureData' # allInfrastructureData)) =>
           (last'.op = "PollSuccess" /\ (nextTask - 1) \in Answered)]_vars

\* C36: at most one ticker and at most one poller are active, and an active one is the
\* one whose handle is stored in progressTimerInterval / pollingIntervalId.
C36_NoOrphanTimer ==
  /\ tickers \subseteq {progressTimerInterval}
  /\ pollers \subseteq {pollingIntervalId}

\* a task is over for the page: it was accepted, its poller is stopped
Settled(t) == submits[t].state = "accepted" /\ t \notin pollers

\* C37: the answer to a status request that was still in flight when its task was over
\* changes neither the snapshot nor the progress bar nor the overlay, shows no details
\* and raises no toast.
C37_TerminalOnce ==
  [][\A t \in Answered : Settled(t) =>
       /\ UNCHANGED <<allInfrastructureData, summaryContainer, progressBarWidth,
                      detailsHidden, loadingOverlayHidden>>
       /\ last'.toast = "none"]_vars

\* C38: once the poller of the accepted task has stopped and nothing of the task is
\* pending any more (no status request in flight, no hideProgress timeout), its ticker
\* is stopped; the overlay is hidden unless another request keeps it shown.
C38_TornDown ==
  (/\ submits[1].state = "accepted" /\ 1 \notin pollers
   /\ polls[1] = 0 /\ hideTimeouts = 0) =>
     /\ 1 \notin tickers
     /\ (exports = 0 /\ InFlight = 0) => loadingOverlayHidden

\* C39: the step that handles a status answer with a non-OK HTTP status stops the ticker
\* and the poller of the answered task, hides the overlay and raises the status-check
\* toast, whatever the width of the bar; a failed status request raises its toast unless
\* the bar is at 100%.
C39_NotOkAlwaysFatal ==
  [][/\ last'.op = "PollNotOk" =>
          /\ \A t \in Answered : t \notin tickers' /\ t \notin pollers'
          /\ loadingOverlayHidden'
          /\ last'.toast = "status"
     /\ last'.op = "PollError" => (last'.toast = "none" <=> WidthIs100)]_vars

=============================================================================
